---- MODULE Spec2Model ----
(***************************************************************************)
(* Model of quiz1/simua/oxygen_sim.py: the Electron / Atom simulation      *)
(* core and the main() driver with its print and animation modes.          *)
(*                                                                         *)
(* Numbers.  The program computes with binary floating point.  The model   *)
(* keeps the finite precision but on a fixed grid: angles and speeds are   *)
(* integers counting 1/AngleUnit rad, time steps dt count 1/DtUnit time    *)
(* units, radius scales count 1/RadiusUnit, cos and sin return 1/TrigUnit. *)
(* A product that does not fall on the grid is rounded to the nearest grid *)
(* point, ties to even, as an IEEE operation rounds its exact result.      *)
(***************************************************************************)
EXTENDS Integers, Sequences, FiniteSets, TLC

VARIABLES atom, atomSteps, atomDt,
          el, el0, elSteps, elDt,
          ret,
          pc, args, exc, exitCode, stdout, stderr,
          printRan, animRan, rendererTouched, failed, frames

libVars  == <<atom, atomSteps, atomDt, el, el0, elSteps, elDt, ret>>
elVars   == <<el, el0, elSteps, elDt>>
mainVars == <<pc, args, exc, exitCode, stdout, stderr,
              printRan, animRan, rendererTouched, failed, frames>>
vars     == <<atom, atomSteps, atomDt, el, el0, elSteps, elDt, ret,
              pc, args, exc, exitCode, stdout, stderr,
              printRan, animRan, rendererTouched, failed, frames>>

----------------------------------------------------------------------------
(* Bounds of the model *)

\* step calls made on the Atom and on the free Electron together
MaxSteps == 3
\* the small dt values range over 0 .. MaxDt, in 1/DtUnit time units
MaxDt == 2
\* update(frame) calls made by the renderer before the window is closed
MaxFrames == 40

----------------------------------------------------------------------------
(* Number representation *)

\* angles and speeds: 1/100 rad
AngleUnit == 100
\* dt: 1/2 time unit
DtUnit == 2
\* radius_scale: 1/2
RadiusUnit == 2
\* cos, sin: 1/1000
TrigUnit == 1000

\* math.pi on the angle grid (3.14 rad)
Pi == 314
TwoPi == 2 * Pi

\* n / d rounded to the nearest integer, ties to even (n >= 0, d > 0)
RoundDiv(n, d) ==
    LET q == n \div d
        r == n % d
    IN  IF 2 * r < d THEN q
        ELSE IF 2 * r > d THEN q + 1
        ELSE IF q % 2 = 0 THEN q ELSE q + 1

\* x % y of two floats with x >= 0, y > 0: fmod is exact
FloatMod(x, y) == x % y

\* cos and sin on [0, pi/2] by their series in Horner form, x in 1/AngleUnit rad,
\* the result in 1/TrigUnit
Sq(x) == x * x
CosQ(x) ==
    LET u  == Sq(x)
        S  == AngleUnit * AngleUnit
        t3 == S - u \div 56
        t2 == S - (u * t3) \div (30 * S)
        t1 == S - (u * t2) \div (12 * S)
        c  == S - (u * t1) \div (2 * S)
    IN  RoundDiv(c * TrigUnit, S)
SinQ(x) ==
    LET u  == Sq(x)
        S  == AngleUnit * AngleUnit
        t3 == S - u \div 72
        t2 == S - (u * t3) \div (42 * S)
        t1 == S - (u * t2) \div (20 * S)
        t0 == S - (u * t1) \div (6 * S)
    IN  RoundDiv(x * t0 * TrigUnit, S * AngleUnit)

\* math.cos, math.sin of an angle in [0, 2 pi): reduction to the first quadrant
Cos(a) ==
    IF a <= Pi \div 2 THEN CosQ(a)
    ELSE IF a <= Pi THEN 0 - CosQ(Pi - a)
    ELSE IF a <= Pi + Pi \div 2 THEN 0 - CosQ(a - Pi)
    ELSE CosQ(TwoPi - a)
Sin(a) ==
    IF a <= Pi \div 2 THEN SinQ(a)
    ELSE IF a <= Pi THEN SinQ(Pi - a)
    ELSE IF a <= Pi + Pi \div 2 THEN 0 - SinQ(a - Pi)
    ELSE 0 - SinQ(TwoPi - a)

----------------------------------------------------------------------------
(* Module constants *)

ATOM_NAME == "Oxygene"
Z == 8

----------------------------------------------------------------------------
(* class Electron *)

Electron(shell, angle, speed) == [shell |-> shell, angle |-> angle, speed |-> speed]

\* Electron.step without the remainder: self.angle = self.angle + self.speed * dt
Electron_step_unwrapped(e, dt) ==
    [e EXCEPT !.angle = e.angle + RoundDiv(e.speed * dt, DtUnit)]

\* Electron.step that also stores the advance in self.speed
Electron_step_storing_speed(e, dt) ==
    [e EXCEPT !.angle = FloatMod(e.angle + RoundDiv(e.speed * dt, DtUnit), TwoPi),
              !.speed = RoundDiv(e.speed * dt, DtUnit)]

\* Electron.step: the product speed * dt is rounded to the grid, the sum and
\* the remainder are exact there
Electron_step(e, dt) ==
    [e EXCEPT !.angle = FloatMod(e.angle + RoundDiv(e.speed * dt, DtUnit), TwoPi)]

\* Electron.position: (x, y) in 1/(RadiusUnit * TrigUnit)
Electron_position(e, radius_scale) ==
    LET r == e.shell * radius_scale
    IN  <<r * Cos(e.angle), r * Sin(e.angle)>>

----------------------------------------------------------------------------
(* class Atom *)

RECURSIVE Shell1Loop(_, _)
Shell1Loop(es, i) ==
    IF i >= 2 THEN es
    ELSE Shell1Loop(Append(es, Electron(1, RoundDiv(2 * Pi * i, 2), 12 + (i % 2) * 2)), i + 1)

\* the shell-2 loop with the shell-1 speed pattern, (i % 2) in place of (i % 3)
RECURSIVE Shell2Loop_mod2(_, _)
Shell2Loop_mod2(es, i) ==
    IF i >= 6 THEN es
    ELSE Shell2Loop_mod2(Append(es, Electron(2, RoundDiv(2 * Pi * i, 6), 7 + (i % 2) * 1)), i + 1)

RECURSIVE Shell2Loop(_, _)
Shell2Loop(es, i) ==
    IF i >= 6 THEN es
    ELSE Shell2Loop(Append(es, Electron(2, RoundDiv(2 * Pi * i, 6), 7 + (i % 3) * 1)), i + 1)

\* _populate_electrons filling shell 2 with the Z - 2 electrons left over
RECURSIVE Shell2LoopUpTo(_, _, _)
Shell2LoopUpTo(es, i, n) ==
    IF i >= n THEN es
    ELSE Shell2LoopUpTo(Append(es, Electron(2, RoundDiv(2 * Pi * i, 6), 7 + (i % 3) * 1)), i + 1, n)
populate_electrons_from_Z(a) ==
    [a EXCEPT !.electrons = Shell2LoopUpTo(Shell1Loop(<<>>, 0), 0, a.Z - 2)]

\* Atom._populate_electrons: clear, then the two loops
populate_electrons(a) ==
    [a EXCEPT !.electrons = Shell2Loop(Shell1Loop(<<>>, 0), 0)]

\* Atom.__init__
Atom_init(z) == populate_electrons([Z |-> z, electrons |-> <<>>])

\* Atom.step: every electron of the list, in order
RECURSIVE StepLoop(_, _, _)
StepLoop(es, i, dt) ==
    IF i > Len(es) THEN es
    ELSE StepLoop([es EXCEPT ![i] = Electron_step(es[i], dt)], i + 1, dt)

\* Atom.step that starts at the second electron (for e in self.electrons[1:])
Atom_step_skipping_first(a, dt) == [a EXCEPT !.electrons = StepLoop(a.electrons, 2, dt)]
Atom_step(a, dt) == [a EXCEPT !.electrons = StepLoop(a.electrons, 1, dt)]

\* shell_counts of Atom.summary: shell -> number of electrons
RECURSIVE CountLoop(_, _, _)
CountLoop(es, i, counts) ==
    IF i > Len(es) THEN counts
    ELSE LET s == es[i].shell
             c == IF s \in DOMAIN counts THEN counts[s] ELSE 0
         IN  CountLoop(es, i + 1,
                       [k \in DOMAIN counts \cup {s} |-> IF k = s THEN c + 1 ELSE counts[k]])

EmptyCounts == [k \in {} |-> 0]

\* sorted(shell_counts): the keys in ascending order
RECURSIVE Sorted(_)
Sorted(S) ==
    IF S = {} THEN <<>>
    ELSE LET m == CHOOSE x \in S : \A y \in S : x <= y
         IN  <<m>> \o Sorted(S \ {m})

\* Atom.summary: the lines of the report, each line the pieces of its f-string
Atom_summary(a) ==
    LET shell_counts == CountLoop(a.electrons, 1, EmptyCounts)
        order == Sorted(DOMAIN shell_counts)
    IN  << <<"Atome : ", ATOM_NAME, " (Z=", a.Z, ")">>,
           <<"Configuration (approx.): 1s2 2s2 2p4 -> total 8 electrons">>,
           <<"Nombre d'electrons: ", Len(a.electrons)>> >>
        \o [j \in 1..Len(order) |->
              <<"  couche ", order[j], ": ", shell_counts[order[j]], " electrons">>]

\* Atom.positions over reversed(self.electrons)
Atom_positions_reversed(a, radius_scale) ==
    [i \in 1..Len(a.electrons) |->
        Electron_position(a.electrons[Len(a.electrons) + 1 - i], radius_scale)]

\* Atom.positions
Atom_positions(a, radius_scale) ==
    [i \in 1..Len(a.electrons) |-> Electron_position(a.electrons[i], radius_scale)]

----------------------------------------------------------------------------
(* The library used directly: one Atom and one free Electron, called in any  *)
(* order by a client.  atomSteps / atomDt and elSteps / elDt record how many *)
(* step calls each object received and the sum of their dt; el0 is the free  *)
(* electron as constructed; ret is the last call and what it returned.       *)

\* dt = 157.0: 0.12 * 157 = 18.84 rad, three revolutions of 6.28 rad
RevDt == 157 * DtUnit
DtValues == (0..MaxDt) \cup {RevDt}

\* radius_scale: the default 1.0 and the 1.5 both callers pass
DefaultRadiusScale == RadiusUnit
DisplayRadiusScale == (3 * RadiusUnit) \div 2
RadiusScales == {DefaultRadiusScale, DisplayRadiusScale}

ZValues == {Z, 26}
\* free electrons: the constructor's defaults (angle 0.0, speed 0.05), a resting
\* one, one just below 2 pi, one turning a full revolution per time unit and one
\* turning more than ten
ElInits == { Electron(1, 0, 5),
             Electron(2, Pi, 0),
             Electron(1, TwoPi - 1, 7),
             Electron(2, TwoPi - 1, TwoPi),
             Electron(3, 1, 10 * TwoPi + 1) }

NoValue == <<>>
NoAtom == [Z |-> 0, electrons |-> <<>>]
NoExit == 0 - 1
NoArgs == [do_print |-> FALSE, animate |-> FALSE]

MainIdle ==
    /\ pc = "library"
    /\ args = NoArgs
    /\ exc = "none"
    /\ exitCode = NoExit
    /\ stdout = <<>>
    /\ stderr = <<>>
    /\ printRan = FALSE
    /\ animRan = FALSE
    /\ rendererTouched = FALSE
    /\ failed = FALSE
    /\ frames = 0

Init ==
    /\ atom \in {Atom_init(z) : z \in ZValues}
    /\ atomSteps = 0
    /\ atomDt = 0
    /\ el \in ElInits
    /\ el0 = el
    /\ elSteps = 0
    /\ elDt = 0
    /\ ret = [op |-> "init", val |-> NoValue]
    /\ MainIdle

CallElectronStep(dt) ==
    /\ atomSteps + elSteps < MaxSteps
    /\ el' = Electron_step(el, dt)
    /\ elSteps' = elSteps + 1
    /\ elDt' = elDt + dt
    /\ ret' = [op |-> "Electron.step", val |-> NoValue]
    /\ UNCHANGED <<atom, atomSteps, atomDt, el0>>
    /\ UNCHANGED mainVars

CallElectronPosition(radius_scale) ==
    /\ ret' = [op |-> "Electron.position", val |-> Electron_position(el, radius_scale)]
    /\ UNCHANGED <<atom, atomSteps, atomDt, el, el0, elSteps, elDt>>
    /\ UNCHANGED mainVars

CallAtomStep(dt) ==
    /\ atomSteps + elSteps < MaxSteps
    /\ atom' = Atom_step(atom, dt)
    /\ atomSteps' = atomSteps + 1
    /\ atomDt' = atomDt + dt
    /\ ret' = [op |-> "Atom.step", val |-> NoValue]
    /\ UNCHANGED elVars
    /\ UNCHANGED mainVars

CallAtomSummary ==
    /\ ret' = [op |-> "Atom.summary", val |-> Atom_summary(atom)]
    /\ UNCHANGED <<atom, atomSteps, atomDt>>
    /\ UNCHANGED elVars
    /\ UNCHANGED mainVars

\* positions that steps the atom before reading it, as update(frame) does
CallAtomPositions_advancing(radius_scale) ==
    /\ atom' = Atom_step(atom, 1 * DtUnit)
    /\ ret' = [op |-> "Atom.positions", val |-> Atom_positions(atom', radius_scale)]
    /\ UNCHANGED <<atomSteps, atomDt>>
    /\ UNCHANGED elVars
    /\ UNCHANGED mainVars

CallAtomPositions(radius_scale) ==
    /\ ret' = [op |-> "Atom.positions", val |-> Atom_positions(atom, radius_scale)]
    /\ UNCHANGED <<atom, atomSteps, atomDt>>
    /\ UNCHANGED elVars
    /\ UNCHANGED mainVars

Next ==
    \/ \E dt \in DtValues : CallElectronStep(dt)
    \/ \E rs \in RadiusScales : CallElectronPosition(rs)
    \/ \E dt \in DtValues : CallAtomStep(dt)
    \/ CallAtomSummary
    \/ \E rs \in RadiusScales : CallAtomPositions(rs)

Spec == Init /\ [][Next]_vars

----------------------------------------------------------------------------
(* main(argv): one run of the program.  args is what parse_args returned   *)
(* for the --print / --animate flags of argv; the renderer (matplotlib) is *)
(* the environment: its import, its setup calls and every frame either     *)
(* return or raise.                                                        *)

\* f"{v:.3f}" of a coordinate in 1/(RadiusUnit * TrigUnit): thousandths
Fmt3(v) ==
    IF v >= 0 THEN RoundDiv(v * 1000, RadiusUnit * TrigUnit)
    ELSE 0 - RoundDiv((0 - v) * 1000, RadiusUnit * TrigUnit)

\* run_print: what it writes to stdout
run_print(a) ==
    LET pos == Atom_positions(a, DisplayRadiusScale)
    IN  <<Atom_summary(a), <<"Positions initiales (x, y) :">>>>
        \o [i \in 1..Len(pos) |-> <<"  e", i, ": (", Fmt3(pos[i][1]), ", ", Fmt3(pos[i][2]), ")">>]

\* the diagnostic run_animate prints to sys.stderr when the import fails
ImportDiagnostic == "matplotlib requis pour l'animation. Installez-le via 'pip install matplotlib'"

\* the exceptions the renderer raises, and the classes `except Exception` catches
RendererErrors == {"ImportError", "RuntimeError"}
\* a handler that catches the missing import only (except ImportError)
CaughtByExceptImportError(e) == e = "ImportError"
CaughtByExceptException(e) == e \in {"Exception", "ImportError", "RuntimeError"}

\* the if-chain with the --animate test first
Main_branch_animate_first(a) ==
    IF a.animate THEN "animate"
    ELSE IF a.do_print THEN "print"
    ELSE "default"

\* the if-chain of main: which branch runs for the parsed flags
Main_branch(a) ==
    IF a.do_print THEN "print"
    ELSE IF a.animate THEN "animate"
    ELSE "default"

MainInit ==
    /\ atom = NoAtom
    /\ atomSteps = 0
    /\ atomDt = 0
    /\ el = Electron(1, 0, 5)
    /\ el0 = el
    /\ elSteps = 0
    /\ elDt = 0
    /\ ret = [op |-> "init", val |-> NoValue]
    /\ pc = "start"
    /\ args \in [do_print : BOOLEAN, animate : BOOLEAN]
    /\ exc = "none"
    /\ exitCode = NoExit
    /\ stdout = <<>>
    /\ stderr = <<>>
    /\ printRan = FALSE
    /\ animRan = FALSE
    /\ rendererTouched = FALSE
    /\ failed = FALSE
    /\ frames = 0

\* atom = Atom(Z=Z)
Main_construct ==
    /\ pc = "start"
    /\ atom' = Atom_init(Z)
    /\ pc' = "dispatch"
    /\ UNCHANGED <<atomSteps, atomDt, ret, args, exc, exitCode, stdout, stderr,
                   printRan, animRan, rendererTouched, failed, frames>>
    /\ UNCHANGED elVars

\* if args.do_print: run_print(atom); return 0
Main_print ==
    /\ pc = "dispatch"
    /\ Main_branch(args) = "print"
    /\ stdout' = stdout \o run_print(atom)
    /\ printRan' = TRUE
    /\ exitCode' = 0
    /\ pc' = "done"
    /\ UNCHANGED <<atom, atomSteps, atomDt, ret, args, exc, stderr,
                   animRan, rendererTouched, failed, frames>>
    /\ UNCHANGED elVars

\* the default: run_print(atom); return 0
Main_default ==
    /\ pc = "dispatch"
    /\ Main_branch(args) = "default"
    /\ stdout' = stdout \o run_print(atom)
    /\ printRan' = TRUE
    /\ exitCode' = 0
    /\ pc' = "done"
    /\ UNCHANGED <<atom, atomSteps, atomDt, ret, args, exc, stderr,
                   animRan, rendererTouched, failed, frames>>
    /\ UNCHANGED elVars

\* if args.animate: try: run_animate(atom)
Main_animate ==
    /\ pc = "dispatch"
    /\ Main_branch(args) = "animate"
    /\ animRan' = TRUE
    /\ pc' = "import"
    /\ UNCHANGED <<atom, atomSteps, atomDt, ret, args, exc, exitCode, stdout, stderr,
                   printRan, rendererTouched, failed, frames>>
    /\ UNCHANGED elVars

\* run_animate: import matplotlib succeeds
Animate_import ==
    /\ pc = "import"
    /\ rendererTouched' = TRUE
    /\ pc' = "setup"
    /\ UNCHANGED <<atom, atomSteps, atomDt, ret, args, exc, exitCode, stdout, stderr,
                   printRan, animRan, failed, frames>>
    /\ UNCHANGED elVars

\* run_animate: import matplotlib raises; the handler prints and re-raises
Animate_import_fails ==
    /\ pc = "import"
    /\ rendererTouched' = TRUE
    /\ stderr' = Append(stderr, ImportDiagnostic)
    /\ exc' = "ImportError"
    /\ failed' = TRUE
    /\ pc' = "raised"
    /\ UNCHANGED <<atom, atomSteps, atomDt, ret, args, exitCode, stdout,
                   printRan, animRan, frames>>
    /\ UNCHANGED elVars

\* run_animate: figure, axes, nucleus, shells, scatter, FuncAnimation all return
Animate_setup ==
    /\ pc = "setup"
    /\ pc' = "show"
    /\ UNCHANGED <<atom, atomSteps, atomDt, ret, args, exc, exitCode, stdout, stderr,
                   printRan, animRan, rendererTouched, failed, frames>>
    /\ UNCHANGED elVars

\* run_animate: one of the setup calls raises; nothing in run_animate catches it
Animate_setup_raises ==
    /\ pc = "setup"
    /\ \E e \in RendererErrors \ {"ImportError"} : exc' = e
    /\ failed' = TRUE
    /\ pc' = "raised"
    /\ UNCHANGED <<atom, atomSteps, atomDt, ret, args, exitCode, stdout, stderr,
                   printRan, animRan, rendererTouched, frames>>
    /\ UNCHANGED elVars

\* update(frame) inside plt.show(): atom.step(dt=1); pos = atom.positions(1.5);
\* scat.set_offsets(pos) returns
Animate_update ==
    /\ pc = "show"
    /\ frames < MaxFrames
    /\ atom' = Atom_step(atom, 1 * DtUnit)
    /\ atomSteps' = atomSteps + 1
    /\ atomDt' = atomDt + 1 * DtUnit
    /\ ret' = [op |-> "set_offsets", val |-> Atom_positions(atom', DisplayRadiusScale)]
    /\ frames' = frames + 1
    /\ UNCHANGED <<pc, args, exc, exitCode, stdout, stderr,
                   printRan, animRan, rendererTouched, failed>>
    /\ UNCHANGED elVars

\* update(frame): scat.set_offsets(pos) raises after the atom was stepped
Animate_update_raises ==
    /\ pc = "show"
    /\ frames < MaxFrames
    /\ atom' = Atom_step(atom, 1 * DtUnit)
    /\ atomSteps' = atomSteps + 1
    /\ atomDt' = atomDt + 1 * DtUnit
    /\ frames' = frames + 1
    /\ \E e \in RendererErrors \ {"ImportError"} : exc' = e
    /\ failed' = TRUE
    /\ pc' = "raised"
    /\ UNCHANGED <<ret, args, exitCode, stdout, stderr,
                   printRan, animRan, rendererTouched>>
    /\ UNCHANGED elVars

\* plt.show() returns (the window is closed) and run_animate returns
Animate_close ==
    /\ pc = "show"
    /\ pc' = "returned"
    /\ UNCHANGED <<atom, atomSteps, atomDt, ret, args, exc, exitCode, stdout, stderr,
                   printRan, animRan, rendererTouched, failed, frames>>
    /\ UNCHANGED elVars

\* return 0 after run_animate returned
Main_return ==
    /\ pc = "returned"
    /\ exitCode' = 0
    /\ pc' = "done"
    /\ UNCHANGED <<atom, atomSteps, atomDt, ret, args, exc, stdout, stderr,
                   printRan, animRan, rendererTouched, failed, frames>>
    /\ UNCHANGED elVars

\* except Exception: return 2; an exception of another class leaves main
Main_except ==
    /\ pc = "raised"
    /\ pc' = IF CaughtByExceptException(exc) THEN "done" ELSE "uncaught"
    /\ exitCode' = IF CaughtByExceptException(exc) THEN 2 ELSE exitCode
    /\ UNCHANGED <<atom, atomSteps, atomDt, ret, args, exc, stdout, stderr,
                   printRan, animRan, rendererTouched, failed, frames>>
    /\ UNCHANGED elVars

MainNext ==
    \/ Main_construct
    \/ Main_print
    \/ Main_default
    \/ Main_animate
    \/ Animate_import
    \/ Animate_import_fails
    \/ Animate_setup
    \/ Animate_setup_raises
    \/ Animate_update
    \/ Animate_update_raises
    \/ Animate_close
    \/ Main_return
    \/ Main_except

SpecMain == MainInit /\ [][MainNext]_vars

----------------------------------------------------------------------------
(* Properties *)

Normalized(e) == 0 <= e.angle /\ e.angle < TwoPi
Fresh(a) == Atom_init(a.Z)
Indices == 1..Len(atom.electrons)

\* distance of x and y around a circle of circumference m
CircDist(x, y, m) ==
    LET d == ((x % m) + m - (y % m)) % m
    IN  IF d <= m - d THEN d ELSE m - d

\* C1: after any number of step calls with dt >= 0 the angle of the free
\* electron and of every electron of the Atom lies in [0, 2 pi), also after
\* many full revolutions.
C1_AngleNormalized ==
    /\ Normalized(el)
    /\ \A i \in Indices : Normalized(atom.electrons[i])

\* C1 witness: both objects were stepped through at least three revolutions.
C1_ManyRevolutions ==
    /\ elSteps >= 1
    /\ atomSteps >= 1
    /\ el.speed * elDt >= 3 * TwoPi * DtUnit
    /\ atom.electrons[1].speed * atomDt >= 3 * TwoPi * DtUnit
    /\ C1_AngleNormalized

\* C2: in every state of an Atom, whatever Z it was built with, it holds
\* exactly 8 electrons, 2 of shell 1 and 6 of shell 2.
C2_EightElectrons ==
    /\ Len(atom.electrons) = 8
    /\ Cardinality({i \in Indices : atom.electrons[i].shell = 1}) = 2
    /\ Cardinality({i \in Indices : atom.electrons[i].shell = 2}) = 6

\* C2 witness: an Atom built with Z = 26, stepped, then read by positions.
C2_OtherZAfterCalls ==
    /\ atom.Z = 26
    /\ atomSteps >= 2
    /\ ret.op = "Atom.positions"
    /\ Len(atom.electrons) = 8

\* C6: a step call changes nothing but angles: Z, the length of the electron
\* list and every electron's shell and speed, position by position, are kept.
C6_StepFrame ==
    [][(atomSteps' # atomSteps \/ elSteps' # elSteps) =>
         /\ atom'.Z = atom.Z
         /\ Len(atom'.electrons) = Len(atom.electrons)
         /\ \A i \in Indices :
               /\ atom'.electrons[i].shell = atom.electrons[i].shell
               /\ atom'.electrons[i].speed = atom.electrons[i].speed
         /\ el'.shell = el.shell
         /\ el'.speed = el.speed]_vars

\* C6 witness: both objects were stepped and their angles moved.
C6_Stepped ==
    /\ atomSteps >= 1
    /\ elSteps >= 1
    /\ atom.electrons[1].angle # Fresh(atom).electrons[1].angle
    /\ el.angle # el0.angle
    /\ el.speed = el0.speed

\* C7: summary, positions and position leave the Atom and the Electron as they
\* were, and no call at all changes the text summary returns.
C7_PureReads ==
    [][/\ ret'.op \in {"Atom.summary", "Atom.positions", "Electron.position"} =>
              (atom' = atom /\ el' = el)
       /\ Atom_summary(atom') = Atom_summary(atom)]_vars

\* C7 witness: summary called after steps returned the text of the fresh Atom.
C7_SummaryAfterSteps ==
    /\ ret.op = "Atom.summary"
    /\ atomSteps >= 2
    /\ atom # Fresh(atom)
    /\ ret.val = Atom_summary(Fresh(atom))

\* C8: before any step the list is shell 1 then shell 2 in creation order, with
\* electron i of shell 1 at angle 2 pi i / 2, speed 0.12 + (i mod 2) 0.02 and
\* electron i of shell 2 at angle 2 pi i / 6, speed 0.07 + (i mod 3) 0.01.
C8_InitialElectrons ==
    atomSteps = 0 =>
        /\ Len(atom.electrons) = 8
        /\ \A i \in 0..1 :
              atom.electrons[1 + i] =
                  [shell |-> 1, angle |-> RoundDiv(TwoPi * i, 2), speed |-> 12 + (i % 2) * 2]
        /\ \A i \in 0..5 :
              atom.electrons[3 + i] =
                  [shell |-> 2, angle |-> RoundDiv(TwoPi * i, 6), speed |-> 7 + (i % 3)]

\* C8 witness: a fresh Atom whose last electron is the sixth of shell 2.
C8_FreshAtom ==
    /\ atomSteps = 0
    /\ atom.Z = 26
    /\ atom.electrons[2] = [shell |-> 1, angle |-> Pi, speed |-> 14]
    /\ atom.electrons[8] = [shell |-> 2, angle |-> 523, speed |-> 9]

\* C9: positions(radiusScale) has one pair per electron, in list order, the
\* pair of electron i lying on radius shell_i * radiusScale at its current
\* angle; for a fresh Atom positions(1.5) has 8 pairs and the first is (1.5, 0).
C9_Positions ==
    /\ \A rs \in RadiusScales :
          LET p == Atom_positions(atom, rs)
          IN  /\ Len(p) = Len(atom.electrons)
              /\ \A i \in Indices :
                    LET e == atom.electrons[i]
                    IN  p[i] = <<e.shell * rs * Cos(e.angle), e.shell * rs * Sin(e.angle)>>
    /\ ret.op = "Atom.positions" =>
          \E rs \in RadiusScales :
              /\ Len(ret.val) = Len(atom.electrons)
              /\ \A i \in Indices :
                    LET e == atom.electrons[i]
                    IN  ret.val[i] = <<e.shell * rs * Cos(e.angle), e.shell * rs * Sin(e.angle)>>
    /\ atomSteps = 0 =>
          /\ Len(Atom_positions(atom, DisplayRadiusScale)) = 8
          /\ Atom_positions(atom, DisplayRadiusScale)[1] = <<DisplayRadiusScale * TrigUnit, 0>>

\* C9 witness: positions(1.5) returned on a stepped Atom, its first pair off
\* the x axis.
C9_PositionsAfterSteps ==
    /\ ret.op = "Atom.positions"
    /\ atomSteps >= 1
    /\ Len(ret.val) = 8
    /\ ret.val[1][2] # 0
    /\ ret.val[3][1] = 2 * DisplayRadiusScale * Cos(atom.electrons[3].angle)

\* the angle of an electron built as e0 after steps whose dt sum to sumDt,
\* computed without rounding, in 1/(AngleUnit * DtUnit) rad
ExactAngle(e0, sumDt) == (e0.angle * DtUnit + e0.speed * sumDt) % (TwoPi * DtUnit)

C3_ExactlyOneMode ==
    /\ ~(printRan /\ animRan)
    /\ printRan => (args.do_print \/ ~args.animate)
    /\ animRan => (args.animate /\ ~args.do_print)
    /\ rendererTouched => animRan
    /\ args.do_print => ~rendererTouched
    /\ pc = "done" => (printRan # animRan)

\* C3 witness: both flags given, the run ended having printed.
C3_BothFlagsPrinted ==
    /\ pc = "done"
    /\ args.do_print
    /\ args.animate
    /\ printRan
    /\ Len(stdout) = 10

\* C4: main returns 0 on every run without a renderer failure and 2 exactly
\* when animation was selected and the renderer was missing or raised; no
\* renderer failure leaves main as an exception.
C4_ExitCodes ==
    /\ pc # "uncaught"
    /\ pc = "done" =>
          /\ exitCode \in {0, 2}
          /\ exitCode = 2 <=> (animRan /\ failed)
          /\ exitCode = 0 <=> ~failed
    /\ pc # "done" => exitCode = NoExit

\* C4 witness: a frame of the animation raised and main returned 2.
C4_FrameRaisedReturned2 ==
    /\ pc = "done"
    /\ exitCode = 2
    /\ exc = "RuntimeError"
    /\ frames >= 2

\* C5: every failing animation run has written a diagnostic to the error
\* stream by the time main returns the non-zero code.
C5_DiagnosticBeforeExit2 ==
    (pc = "done" /\ exitCode = 2) => Len(stderr) >= 1

====
